---- MODULE Spec2Model ----
(***************************************************************************)
(* Model of src/mobilebackup2.c, the MobileBackup2 client of               *)
(* libimobiledevice: connection life cycle, the "Hello"/"Response"         *)
(* version exchange, the MessageName envelope helpers, the request and     *)
(* status-response senders and the raw send/receive loops.                 *)
(*                                                                         *)
(* The device link service, the raw idevice connection and libplist are    *)
(* the environment: every call into the first two returns a value chosen   *)
(* nondeterministically from a small set.                                  *)
(***************************************************************************)
EXTENDS Integers, Sequences, FiniteSets, TLC

(***************************************************************************)
(* Bounds of the model.                                                    *)
(***************************************************************************)
\* number of mobilebackup2_client_private objects that can be allocated
MaxConns == 2
\* largest length handed to mobilebackup2_send_raw / mobilebackup2_receive_raw
MaxLen == 3

Conns == 1..MaxConns

(***************************************************************************)
(* plist values.  Every plist_t is a record of one shape; NULL is the      *)
(* absent pointer.  Reals are kept in tenths (20 is 2.0, 21 is 2.1).       *)
(* A PLIST_DICT keeps its items as a function from key to node, a          *)
(* PLIST_ARRAY as a sequence of nodes.                                     *)
(***************************************************************************)
NoItems == [k \in {} |-> 0]

NULL == [type |-> "NULL", num |-> 0, str |-> "", items |-> NoItems]

plist_new_string(s) == [type |-> "PLIST_STRING", num |-> 0, str |-> s, items |-> NoItems]

plist_new_uint(n) == [type |-> "PLIST_UINT", num |-> n, str |-> "", items |-> NoItems]

\* The modulus of uint64_t.  The integers of the model are narrower than 64
\* bits, so 2^30 stands for 2^64: every unsigned value the model builds is
\* far below it, except an int below zero converted to uint64_t.
UINT64_MODULUS == 1073741824

\* the conversion of an int argument to the uint64_t parameter of
\* plist_new_uint: the value modulo 2^64
uint64_of_int(n) == n % UINT64_MODULUS

plist_new_real(tenths) == [type |-> "PLIST_REAL", num |-> tenths, str |-> "", items |-> NoItems]

plist_new_dict == [type |-> "PLIST_DICT", num |-> 0, str |-> "", items |-> NoItems]

plist_new_array == [type |-> "PLIST_ARRAY", num |-> 0, str |-> "", items |-> <<>>]

plist_get_node_type(node) == node.type

\* a deep copy: a new node of equal value (what the caller's node is afterwards
\* is tracked separately, see internal_mobilebackup2_send_message)
plist_copy(node) == node

plist_dict_insert_item(dict, key, item) ==
    IF dict.type = "PLIST_DICT"
    THEN [dict EXCEPT !.items = [k \in (DOMAIN dict.items) \cup {key} |->
                                    IF k = key THEN item ELSE dict.items[k]]]
    ELSE dict

plist_dict_get_item(dict, key) ==
    IF dict.type = "PLIST_DICT" /\ key \in DOMAIN dict.items
    THEN dict.items[key]
    ELSE NULL

plist_array_append_item(array, item) ==
    IF array.type = "PLIST_ARRAY"
    THEN [array EXCEPT !.items = Append(array.items, item)]
    ELSE array

\* plist_get_string_val: the string of a PLIST_STRING node, NULL (here "")
\* with found = FALSE for any other node
plist_get_string_val(node) ==
    IF node.type = "PLIST_STRING"
    THEN [found |-> TRUE, str |-> node.str]
    ELSE [found |-> FALSE, str |-> ""]

(***************************************************************************)
(* Error codes.                                                            *)
(***************************************************************************)
MOBILEBACKUP2_E_SUCCESS == "MOBILEBACKUP2_E_SUCCESS"
MOBILEBACKUP2_E_INVALID_ARG == "MOBILEBACKUP2_E_INVALID_ARG"
MOBILEBACKUP2_E_PLIST_ERROR == "MOBILEBACKUP2_E_PLIST_ERROR"
MOBILEBACKUP2_E_MUX_ERROR == "MOBILEBACKUP2_E_MUX_ERROR"
MOBILEBACKUP2_E_BAD_VERSION == "MOBILEBACKUP2_E_BAD_VERSION"
MOBILEBACKUP2_E_REPLY_NOT_OK == "MOBILEBACKUP2_E_REPLY_NOT_OK"
MOBILEBACKUP2_E_UNKNOWN_ERROR == "MOBILEBACKUP2_E_UNKNOWN_ERROR"

\* the values a device link service call can return; the last one stands
\* for every value the switch of mobilebackup2_error has no case for
DLErrors == {"DEVICE_LINK_SERVICE_E_SUCCESS",
             "DEVICE_LINK_SERVICE_E_INVALID_ARG",
             "DEVICE_LINK_SERVICE_E_PLIST_ERROR",
             "DEVICE_LINK_SERVICE_E_MUX_ERROR",
             "DEVICE_LINK_SERVICE_E_BAD_VERSION",
             "DEVICE_LINK_SERVICE_E_UNKNOWN_ERROR"}

DL_SUCCESS == "DEVICE_LINK_SERVICE_E_SUCCESS"

\* Faulty variant: the switch has no case for DEVICE_LINK_SERVICE_E_BAD_VERSION
\* and its default returns the value for success.
mobilebackup2_error_default_success(err) ==
    CASE err = "DEVICE_LINK_SERVICE_E_SUCCESS" -> MOBILEBACKUP2_E_SUCCESS
      [] err = "DEVICE_LINK_SERVICE_E_INVALID_ARG" -> MOBILEBACKUP2_E_INVALID_ARG
      [] err = "DEVICE_LINK_SERVICE_E_PLIST_ERROR" -> MOBILEBACKUP2_E_PLIST_ERROR
      [] err = "DEVICE_LINK_SERVICE_E_MUX_ERROR" -> MOBILEBACKUP2_E_MUX_ERROR
      [] OTHER -> MOBILEBACKUP2_E_SUCCESS

mobilebackup2_error(err) ==
    CASE err = "DEVICE_LINK_SERVICE_E_SUCCESS" -> MOBILEBACKUP2_E_SUCCESS
      [] err = "DEVICE_LINK_SERVICE_E_INVALID_ARG" -> MOBILEBACKUP2_E_INVALID_ARG
      [] err = "DEVICE_LINK_SERVICE_E_PLIST_ERROR" -> MOBILEBACKUP2_E_PLIST_ERROR
      [] err = "DEVICE_LINK_SERVICE_E_MUX_ERROR" -> MOBILEBACKUP2_E_MUX_ERROR
      [] err = "DEVICE_LINK_SERVICE_E_BAD_VERSION" -> MOBILEBACKUP2_E_BAD_VERSION
      [] OTHER -> MOBILEBACKUP2_E_UNKNOWN_ERROR

\* the outcome of a call that dereferenced a NULL client
SIGSEGV == "SIGSEGV"

(***************************************************************************)
(* State.                                                                  *)
(***************************************************************************)
VARIABLES
    heap,     \* [Conns -> "unalloc" | "live" | "freed"]: the client objects
    parent,   \* [Conns -> 0 | handle]: client->parent as stored in the object
    dl,       \* [Conns -> record]: the device link handle opened for object c;
              \* "released" once it was passed to device_link_service_client_free
    negotiated, \* [Conns -> BOOLEAN]: mobilebackup2_version_exchange succeeded
    client,   \* the caller's mobilebackup2_client_t variable: 0 (NULL) or an object
    nfrees,   \* [Conns -> Nat]: how often free() was applied to the object
    uaf,      \* a released object or handle was read, used or freed again
    last      \* the most recent call: its arguments, what it sent, its results
              \* (adapter: the values the device link service, or the
              \* connection, returned, in order)

vars == <<heap, parent, dl, negotiated, client, nfrees, uaf, last>>

\* the record of a call, before any of its fields is filled in
NoCall == [op |-> "none", client |-> 0, ret |-> MOBILEBACKUP2_E_SUCCESS,
           accepted |-> FALSE,
           message |-> "", options |-> NULL, optionsAfter |-> NULL,
           sent |-> <<>>, recvErr |-> "none", reply |-> NULL, result |-> NULL,
           wantResult |-> FALSE,
           adapter |-> <<>>, opened |-> FALSE, assigned |-> FALSE,
           target |-> "", source |-> "",
           rval |-> 0, length |-> 0, prog |-> <<>>, bytes |-> 0, calls |-> 0,
           asked |-> <<>>, data |-> <<>>, wire |-> <<>>, stream |-> <<>>,
           echo |-> FALSE, echoed |-> <<>>, echoedProg |-> <<>>]

ClosedHandle == [state |-> "closed", disconnects |-> 0, frees |-> 0, exchanged |-> FALSE]

Init ==
    /\ heap = [c \in Conns |-> "unalloc"]
    /\ parent = [c \in Conns |-> 0]
    /\ dl = [c \in Conns |-> ClosedHandle]
    /\ negotiated = [c \in Conns |-> FALSE]
    /\ client = 0
    /\ nfrees = [c \in Conns |-> 0]
    /\ uaf = FALSE
    /\ last = NoCall

\* No call has crashed the process or touched released memory.  What the
\* process does after either is undefined and is not followed further.
Alive == last.ret # SIGSEGV /\ ~uaf

\* The values a read of client->parent can yield.  Reading a freed object is
\* undefined: the stale handle, or NULL when the allocator has cleared it.
ParentRead(c) == IF heap[c] = "live" THEN {parent[c]} ELSE {parent[c], 0}

(***************************************************************************)
(* The MessageName envelope helpers.  A const char * is a string, or       *)
(* NULLSTR for the NULL pointer.                                           *)
(***************************************************************************)
NULLSTR == "<NULL>"

\* Faulty variant: the node type of options is not checked.
send_message_args_ok_any_options(clientOk, message, options) ==
    ~(~clientOk \/ (message = NULLSTR /\ options = NULL))

\* Faulty variant: MessageName is inserted into the caller's options, not
\* into a copy.
send_message_envelope_in_place(message, options) ==
    LET dict0 == IF options # NULL THEN options ELSE plist_new_dict
        dict == plist_dict_insert_item(dict0, "MessageName", plist_new_string(message))
    IN  [dict |-> dict, optionsAfter |-> IF options # NULL THEN dict ELSE options]

\* the argument checks of internal_mobilebackup2_send_message
send_message_args_ok(clientOk, message, options) ==
    /\ ~(~clientOk \/ (message = NULLSTR /\ options = NULL))
    /\ ~(options # NULL /\ plist_get_node_type(options) # "PLIST_DICT")

\* the plist internal_mobilebackup2_send_message builds when message is given
\*   dict:         the plist handed to the device link service
\*   optionsAfter: the caller's options node once dict has been built and freed
send_message_envelope(message, options) ==
    LET dict0 == IF options # NULL THEN plist_copy(options) ELSE plist_new_dict
        dict == plist_dict_insert_item(dict0, "MessageName", plist_new_string(message))
    IN  [dict |-> dict, optionsAfter |-> options]

\* internal_mobilebackup2_send_message, given whether client and
\* client->parent are both non-NULL and what
\* device_link_service_send_process_message returns (e).
\*   sent: the plists handed to device_link_service_send_process_message
internal_mobilebackup2_send_message(clientOk, message, options, e) ==
    IF ~send_message_args_ok(clientOk, message, options)
    THEN [err |-> MOBILEBACKUP2_E_INVALID_ARG, sent |-> <<>>, optionsAfter |-> options]
    ELSE IF message # NULLSTR
    THEN LET env == send_message_envelope(message, options)
         IN  [err |-> mobilebackup2_error(e), sent |-> <<env.dict>>,
              optionsAfter |-> env.optionsAfter]
    ELSE [err |-> mobilebackup2_error(e), sent |-> <<options>>, optionsAfter |-> options]

\* Faulty variant: *result is not set to NULL before the receive.
receive_message_clear_skipped(wantResult, result0) == result0

\* Faulty variant: a MessageName that is no string (str stays NULL) is not
\* compared and counts as a match.
receive_message_check_null_str_matches(dict, message) ==
    LET node == plist_dict_get_item(dict, "MessageName")
        str == plist_get_string_val(node)
    IN  IF node = NULL
        THEN MOBILEBACKUP2_E_PLIST_ERROR
        ELSE IF ~str.found \/ str.str = message
        THEN MOBILEBACKUP2_E_SUCCESS
        ELSE MOBILEBACKUP2_E_REPLY_NOT_OK

\* *result once internal_mobilebackup2_receive_message has passed its argument
\* check: set to NULL when the pointer is given (result0 is *result before)
receive_message_clear(wantResult, result0) == IF wantResult THEN NULL ELSE result0

\* Faulty variant: a plist without MessageName is reported as a mismatch.
receive_message_check_missing_as_mismatch(dict, message) ==
    LET node == plist_dict_get_item(dict, "MessageName")
        str == plist_get_string_val(node)
    IN  IF node # NULL /\ str.found /\ str.str = message
        THEN MOBILEBACKUP2_E_SUCCESS
        ELSE MOBILEBACKUP2_E_REPLY_NOT_OK

\* the MessageName check of internal_mobilebackup2_receive_message on the
\* received plist
receive_message_check(dict, message) ==
    LET node == plist_dict_get_item(dict, "MessageName")
        str == plist_get_string_val(node)
    IN  IF node = NULL
        THEN MOBILEBACKUP2_E_PLIST_ERROR
        ELSE IF str.found /\ str.str = message
        THEN MOBILEBACKUP2_E_SUCCESS
        ELSE MOBILEBACKUP2_E_REPLY_NOT_OK

\* internal_mobilebackup2_receive_message, given what
\* device_link_service_receive_process_message returns (e) and the plist it
\* delivers (reply; NULL when it fails).
\*   wantResult: the result pointer is not NULL;  result0: *result before the call
\*   result:     *result after the call
internal_mobilebackup2_receive_message(clientOk, message, wantResult, result0, e, reply) ==
    IF ~clientOk \/ message = NULLSTR
    THEN [err |-> MOBILEBACKUP2_E_INVALID_ARG, result |-> result0]
    ELSE LET cleared == receive_message_clear(wantResult, result0)
             err1 == mobilebackup2_error(e)
             dict == reply
             err2 == receive_message_check(dict, message)
         IN  IF err1 # MOBILEBACKUP2_E_SUCCESS
             THEN [err |-> err1, result |-> cleared]
             ELSE IF err2 = MOBILEBACKUP2_E_PLIST_ERROR
             THEN [err |-> err2, result |-> cleared]
             ELSE [err |-> err2, result |-> IF wantResult THEN dict ELSE cleared]

(***************************************************************************)
(* mobilebackup2_version_exchange: the "Hello" / "Response" exchange.      *)
(***************************************************************************)
SupportedProtocolVersions ==
    plist_array_append_item(
        plist_array_append_item(plist_new_array, plist_new_real(20)),
        plist_new_real(21))

\* Faulty variant: an ErrorCode other than zero is reported as a plist error.
version_exchange_error_code_as_plist_error(dict) ==
    LET node == plist_dict_get_item(dict, "ErrorCode")
    IN  IF node = NULL \/ plist_get_node_type(node) # "PLIST_UINT" \/ node.num # 0
        THEN MOBILEBACKUP2_E_PLIST_ERROR
        ELSE MOBILEBACKUP2_E_SUCCESS

\* Faulty variant: the version check of the TODO is in place, with 2.1 as
\* the least version accepted.
version_exchange_protocol_version_checked(dict) ==
    LET node == plist_dict_get_item(dict, "ProtocolVersion")
    IN  IF node = NULL \/ plist_get_node_type(node) # "PLIST_REAL"
        THEN MOBILEBACKUP2_E_PLIST_ERROR
        ELSE IF node.num < 21
        THEN MOBILEBACKUP2_E_BAD_VERSION
        ELSE MOBILEBACKUP2_E_SUCCESS

\* the ErrorCode check of mobilebackup2_version_exchange on the reply
version_exchange_error_code(dict) ==
    LET node == plist_dict_get_item(dict, "ErrorCode")
    IN  IF node = NULL \/ plist_get_node_type(node) # "PLIST_UINT"
        THEN MOBILEBACKUP2_E_PLIST_ERROR
        ELSE IF node.num # 0
        THEN MOBILEBACKUP2_E_REPLY_NOT_OK
        ELSE MOBILEBACKUP2_E_SUCCESS

\* the ProtocolVersion check of mobilebackup2_version_exchange on the reply;
\* the version itself is logged and not compared with anything
version_exchange_protocol_version(dict) ==
    LET node == plist_dict_get_item(dict, "ProtocolVersion")
    IN  IF node = NULL \/ plist_get_node_type(node) # "PLIST_REAL"
        THEN MOBILEBACKUP2_E_PLIST_ERROR
        ELSE MOBILEBACKUP2_E_SUCCESS

\* given what the send (eSend) and the receive (eRecv, reply) of the device
\* link service return.  adapter: the device link results, in call order;
\* rval: the protocol version that is logged (0 when none is)
mobilebackup2_version_exchange(clientOk, eSend, eRecv, reply) ==
    IF ~clientOk
    THEN [err |-> MOBILEBACKUP2_E_INVALID_ARG, sent |-> <<>>, adapter |-> <<>>, rval |-> 0]
    ELSE
    LET hello == plist_dict_insert_item(plist_new_dict, "SupportedProtocolVersions",
                                        SupportedProtocolVersions)
        s == internal_mobilebackup2_send_message(clientOk, "Hello", hello, eSend)
        r == internal_mobilebackup2_receive_message(clientOk, "Response", TRUE, NULL,
                                                    eRecv, reply)
        dict == r.result
        errCode == version_exchange_error_code(dict)
        errVersion == version_exchange_protocol_version(dict)
    IN  IF s.err # MOBILEBACKUP2_E_SUCCESS
        THEN [err |-> s.err, sent |-> s.sent, adapter |-> <<eSend>>, rval |-> 0]
        ELSE IF r.err # MOBILEBACKUP2_E_SUCCESS
        THEN [err |-> r.err, sent |-> s.sent, adapter |-> <<eSend, eRecv>>, rval |-> 0]
        ELSE IF errCode # MOBILEBACKUP2_E_SUCCESS
        THEN [err |-> errCode, sent |-> s.sent, adapter |-> <<eSend, eRecv>>, rval |-> 0]
        ELSE IF errVersion # MOBILEBACKUP2_E_SUCCESS
        THEN [err |-> errVersion, sent |-> s.sent, adapter |-> <<eSend, eRecv>>, rval |-> 0]
        ELSE [err |-> r.err, sent |-> s.sent, adapter |-> <<eSend, eRecv>>,
              rval |-> plist_dict_get_item(dict, "ProtocolVersion").num]

(***************************************************************************)
(* mobilebackup2_send_request and mobilebackup2_send_status_response.      *)
(***************************************************************************)
\* Faulty variant: target_identifier is not checked; a NULL one is sent as
\* an empty string.
send_request_unchecked_target(clientOk, request, target_identifier, source_identifier, options, e) ==
    IF ~clientOk \/ request = NULLSTR
    THEN [err |-> MOBILEBACKUP2_E_INVALID_ARG, sent |-> <<>>, optionsAfter |-> options]
    ELSE LET d1 == plist_dict_insert_item(plist_new_dict, "TargetIdentifier",
                       plist_new_string(IF target_identifier = NULLSTR
                                        THEN "" ELSE target_identifier))
             d2 == IF source_identifier # NULLSTR
                   THEN plist_dict_insert_item(d1, "SourceIdentifier",
                                               plist_new_string(source_identifier))
                   ELSE d1
             dict == IF options # NULL
                     THEN plist_dict_insert_item(d2, "Options", plist_copy(options))
                     ELSE d2
             s == internal_mobilebackup2_send_message(clientOk, request, dict, e)
         IN  [err |-> s.err, sent |-> s.sent, optionsAfter |-> options]

\* Faulty variant: the caller's options dictionary is used as the message
\* body, so that TargetIdentifier and SourceIdentifier are inserted into it
\* and no Options key is sent.
send_request_into_options(clientOk, request, target_identifier, source_identifier, options, e) ==
    IF ~clientOk \/ request = NULLSTR \/ target_identifier = NULLSTR
    THEN [err |-> MOBILEBACKUP2_E_INVALID_ARG, sent |-> <<>>, optionsAfter |-> options]
    ELSE LET d0 == IF options # NULL /\ options.type = "PLIST_DICT"
                   THEN options ELSE plist_new_dict
             d1 == plist_dict_insert_item(d0, "TargetIdentifier",
                                          plist_new_string(target_identifier))
             dict == IF source_identifier # NULLSTR
                     THEN plist_dict_insert_item(d1, "SourceIdentifier",
                                                 plist_new_string(source_identifier))
                     ELSE d1
             s == internal_mobilebackup2_send_message(clientOk, request, dict, e)
         IN  [err |-> s.err, sent |-> s.sent,
              optionsAfter |-> IF options # NULL /\ options.type = "PLIST_DICT"
                               THEN dict ELSE options]

mobilebackup2_send_request(clientOk, request, target_identifier, source_identifier, options, e) ==
    IF ~clientOk \/ request = NULLSTR \/ target_identifier = NULLSTR
    THEN [err |-> MOBILEBACKUP2_E_INVALID_ARG, sent |-> <<>>, optionsAfter |-> options]
    ELSE LET d1 == plist_dict_insert_item(plist_new_dict, "TargetIdentifier",
                                          plist_new_string(target_identifier))
             d2 == IF source_identifier # NULLSTR
                   THEN plist_dict_insert_item(d1, "SourceIdentifier",
                                               plist_new_string(source_identifier))
                   ELSE d1
             dict == IF options # NULL
                     THEN plist_dict_insert_item(d2, "Options", plist_copy(options))
                     ELSE d2
             s == internal_mobilebackup2_send_message(clientOk, request, dict, e)
         IN  [err |-> s.err, sent |-> s.sent, optionsAfter |-> options]

EmptyParameterString == "___EmptyParameterString___"

\* Faulty variant: a status1 or status2 that is NULL is left out of the array.
send_status_response_omits_absent(clientOk, status_code, status1, status2, e) ==
    IF ~clientOk
    THEN [err |-> MOBILEBACKUP2_E_INVALID_ARG, sent |-> <<>>]
    ELSE LET a1 == plist_array_append_item(plist_new_array,
                                           plist_new_string("DLMessageStatusResponse"))
             a2 == plist_array_append_item(a1, plist_new_uint(uint64_of_int(status_code)))
             a3 == IF status1 # NULLSTR
                   THEN plist_array_append_item(a2, plist_new_string(status1))
                   ELSE a2
             array == IF status2 # NULL
                      THEN plist_array_append_item(a3, plist_copy(status2))
                      ELSE a3
         IN  [err |-> mobilebackup2_error(e), sent |-> <<array>>]

\* status_code is an int; e: what device_link_service_send returns
mobilebackup2_send_status_response(clientOk, status_code, status1, status2, e) ==
    IF ~clientOk
    THEN [err |-> MOBILEBACKUP2_E_INVALID_ARG, sent |-> <<>>]
    ELSE LET a1 == plist_array_append_item(plist_new_array,
                                           plist_new_string("DLMessageStatusResponse"))
             a2 == plist_array_append_item(a1, plist_new_uint(uint64_of_int(status_code)))
             a3 == IF status1 # NULLSTR
                   THEN plist_array_append_item(a2, plist_new_string(status1))
                   ELSE plist_array_append_item(a2, plist_new_string(EmptyParameterString))
             array == IF status2 # NULL
                      THEN plist_array_append_item(a3, plist_copy(status2))
                      ELSE plist_array_append_item(a3, plist_new_string(EmptyParameterString))
         IN  [err |-> mobilebackup2_error(e), sent |-> <<array>>]

(***************************************************************************)
(* mobilebackup2_send_raw and mobilebackup2_receive_raw.  prog[i] is the   *)
(* byte count (bytes_loc, read as an int) that the i-th call of            *)
(* idevice_connection_send / idevice_connection_receive leaves behind.     *)
(* A buffer is a sequence of bytes; data + n is the buffer from its        *)
(* (n+1)-th byte on.                                                       *)
(***************************************************************************)
\* bytes_loc after the i-th call of the connection (0, the value it is set
\* to before the call, when the connection writes nothing)
bytes_loc_after(prog, i) == IF i \in DOMAIN prog THEN prog[i] ELSE 0

RECURSIVE transfer_keeps_offset(_, _, _, _)
\* Faulty variant: every call is made on the whole buffer (data and length),
\* not on data + moved and length - moved.
transfer_keeps_offset(length, prog, i, moved) ==
    LET bytes_loc == bytes_loc_after(prog, i)
        call == [off |-> 0, len |-> length]
    IN  IF bytes_loc <= 0
        THEN [moved |-> moved, calls |-> i, asked |-> <<call>>]
        ELSE IF moved + bytes_loc < length
        THEN LET rest == transfer_keeps_offset(length, prog, i + 1, moved + bytes_loc)
             IN  [rest EXCEPT !.asked = <<call>> \o @]
        ELSE [moved |-> moved + bytes_loc, calls |-> i, asked |-> <<call>>]

RECURSIVE transfer_through_length(_, _, _, _)
\* Faulty variant: the loop goes on while moved <= length.
transfer_through_length(length, prog, i, moved) ==
    LET bytes_loc == bytes_loc_after(prog, i)
        call == [off |-> moved, len |-> length - moved]
    IN  IF bytes_loc <= 0
        THEN [moved |-> moved, calls |-> i, asked |-> <<call>>]
        ELSE IF moved + bytes_loc <= length
        THEN LET rest == transfer_through_length(length, prog, i + 1, moved + bytes_loc)
             IN  [rest EXCEPT !.asked = <<call>> \o @]
        ELSE [moved |-> moved + bytes_loc, calls |-> i, asked |-> <<call>>]

RECURSIVE transfer(_, _, _, _)
\* the do-while loop of both functions: moved is sent / received before the
\* i-th call.
\*   calls: the number of calls made;  asked: for each call, the offset into
\*   data and the length it was made with
transfer(length, prog, i, moved) ==
    LET bytes_loc == bytes_loc_after(prog, i)
        call == [off |-> moved, len |-> length - moved]
    IN  IF bytes_loc <= 0
        THEN [moved |-> moved, calls |-> i, asked |-> <<call>>]
        ELSE IF moved + bytes_loc < length
        THEN LET rest == transfer(length, prog, i + 1, moved + bytes_loc)
             IN  [rest EXCEPT !.asked = <<call>> \o @]
        ELSE [moved |-> moved + bytes_loc, calls |-> i, asked |-> <<call>>]

\* the progress of the i-th call as a byte count: nothing when bytes_loc <= 0
Progress(prog, i) == IF bytes_loc_after(prog, i) > 0 THEN bytes_loc_after(prog, i) ELSE 0

RECURSIVE taken(_, _, _, _)
\* what idevice_connection_send takes from the buffers it is handed in the
\* calls i..Len(asked): from each, as many bytes as it reports
taken(data, asked, prog, i) ==
    IF i > Len(asked)
    THEN <<>>
    ELSE SubSeq(data, asked[i].off + 1, asked[i].off + Progress(prog, i))
             \o taken(data, asked, prog, i + 1)

RECURSIVE stored(_, _, _, _, _, _)
\* what idevice_connection_receive leaves in data in the calls i..Len(asked):
\* each call stores the next bytes of stream, as many as it reports, at the
\* offset it is handed; read is what the earlier calls took from stream
stored(data, stream, asked, prog, i, read) ==
    IF i > Len(asked)
    THEN data
    ELSE LET n == Progress(prog, i)
             off == asked[i].off
             data1 == SubSeq(data, 1, off) \o SubSeq(stream, read + 1, read + n)
                          \o SubSeq(data, off + n + 1, Len(data))
         IN  stored(data1, stream, asked, prog, i + 1, read + n)

\* Faulty variant: a transfer that stops short of length is an error.
send_raw_partial_is_error(clientOk, data, length, prog) ==
    IF ~clientOk
    THEN [ret |-> MOBILEBACKUP2_E_INVALID_ARG, bytes |-> 0, calls |-> 0,
          asked |-> <<>>, wire |-> <<>>]
    ELSE LET t == transfer(length, prog, 1, 0)
             wire == taken(data, t.asked, prog, 1)
         IN  IF t.moved > 0 /\ t.moved >= length
             THEN [ret |-> MOBILEBACKUP2_E_SUCCESS, bytes |-> t.moved, calls |-> t.calls,
                   asked |-> t.asked, wire |-> wire]
             ELSE [ret |-> MOBILEBACKUP2_E_MUX_ERROR, bytes |-> 0, calls |-> t.calls,
                   asked |-> t.asked, wire |-> wire]

\* Faulty variant: sent == 0 returns success, as received == 0 does in
\* mobilebackup2_receive_raw.
send_raw_zero_is_success(clientOk, data, length, prog) ==
    IF ~clientOk
    THEN [ret |-> MOBILEBACKUP2_E_INVALID_ARG, bytes |-> 0, calls |-> 0,
          asked |-> <<>>, wire |-> <<>>]
    ELSE LET t == transfer(length, prog, 1, 0)
             wire == taken(data, t.asked, prog, 1)
         IN  IF t.moved >= 0
             THEN [ret |-> MOBILEBACKUP2_E_SUCCESS, bytes |-> t.moved, calls |-> t.calls,
                   asked |-> t.asked, wire |-> wire]
             ELSE [ret |-> MOBILEBACKUP2_E_MUX_ERROR, bytes |-> 0, calls |-> t.calls,
                   asked |-> t.asked, wire |-> wire]

\* data: the caller's buffer.  bytes: *bytes after the call;  wire: the bytes
\* the connection has taken, in order
mobilebackup2_send_raw(clientOk, data, length, prog) ==
    IF ~clientOk
    THEN [ret |-> MOBILEBACKUP2_E_INVALID_ARG, bytes |-> 0, calls |-> 0,
          asked |-> <<>>, wire |-> <<>>]
    ELSE LET t == transfer(length, prog, 1, 0)
             wire == taken(data, t.asked, prog, 1)
         IN  IF t.moved > 0
             THEN [ret |-> MOBILEBACKUP2_E_SUCCESS, bytes |-> t.moved, calls |-> t.calls,
                   asked |-> t.asked, wire |-> wire]
             ELSE [ret |-> MOBILEBACKUP2_E_MUX_ERROR, bytes |-> 0, calls |-> t.calls,
                   asked |-> t.asked, wire |-> wire]

\* Faulty variant: received == 0 is an error, as sent == 0 is in
\* mobilebackup2_send_raw.
receive_raw_zero_is_error(clientOk, data, length, prog, stream) ==
    IF ~clientOk
    THEN [ret |-> MOBILEBACKUP2_E_INVALID_ARG, bytes |-> 0, calls |-> 0,
          asked |-> <<>>, data |-> data]
    ELSE LET t == transfer(length, prog, 1, 0)
             data1 == stored(data, stream, t.asked, prog, 1, 0)
         IN  IF t.moved > 0
             THEN [ret |-> MOBILEBACKUP2_E_SUCCESS, bytes |-> t.moved, calls |-> t.calls,
                   asked |-> t.asked, data |-> data1]
             ELSE [ret |-> MOBILEBACKUP2_E_MUX_ERROR, bytes |-> 0, calls |-> t.calls,
                   asked |-> t.asked, data |-> data1]

\* data: the caller's buffer before the call;  stream: the bytes the
\* connection has to deliver.  What idevice_connection_receive returns is not
\* a parameter: the function does not read it.
mobilebackup2_receive_raw(clientOk, data, length, prog, stream) ==
    IF ~clientOk
    THEN [ret |-> MOBILEBACKUP2_E_INVALID_ARG, bytes |-> 0, calls |-> 0,
          asked |-> <<>>, data |-> data]
    ELSE LET t == transfer(length, prog, 1, 0)
             data1 == stored(data, stream, t.asked, prog, 1, 0)
         IN  IF t.moved > 0
             THEN [ret |-> MOBILEBACKUP2_E_SUCCESS, bytes |-> t.moved, calls |-> t.calls,
                   asked |-> t.asked, data |-> data1]
             ELSE IF t.moved = 0
             THEN [ret |-> MOBILEBACKUP2_E_SUCCESS, bytes |-> 0, calls |-> t.calls,
                   asked |-> t.asked, data |-> data1]
             ELSE [ret |-> MOBILEBACKUP2_E_MUX_ERROR, bytes |-> 0, calls |-> t.calls,
                   asked |-> t.asked, data |-> data1]

RECURSIVE Admissible(_, _, _, _)
\* the connection never moves more bytes than the call asks for, and a call
\* that is not made leaves nothing behind
Admissible(length, prog, i, moved) ==
    IF i > Len(prog)
    THEN TRUE
    ELSE IF moved >= length /\ i > 1
    THEN prog[i] = 0 /\ Admissible(length, prog, i + 1, moved)
    ELSE IF prog[i] <= 0
    THEN \A j \in (i + 1)..Len(prog) : prog[j] = 0
    ELSE prog[i] <= length - moved /\ Admissible(length, prog, i + 1, moved + prog[i])

\* what idevice_connection_send and idevice_connection_receive return
IDEVICE_E_SUCCESS == "IDEVICE_E_SUCCESS"
IDeviceErrors == {IDEVICE_E_SUCCESS, "IDEVICE_E_UNKNOWN_ERROR"}

\* what the calls made have returned, in order
ReturnedBy(rets, calls) ==
    [i \in 1..calls |-> IF i \in DOMAIN rets THEN rets[i] ELSE IDEVICE_E_SUCCESS]

RECURSIVE Delivered(_, _)
\* the number of bytes the connection has moved in the first calls calls
Delivered(prog, calls) ==
    IF calls = 0 THEN 0 ELSE Delivered(prog, calls - 1) + Progress(prog, calls)

\* the answer of a connection that is not called
NoOutcome == <<[i \in 1..MaxLen |-> 0], [i \in 1..MaxLen |-> IDEVICE_E_SUCCESS]>>

\* rets[i] is what the i-th call returns: a call that fails moves no bytes,
\* and a call that is not made returns nothing
Returned(prog, rets, calls) ==
    \A i \in DOMAIN rets :
        /\ rets[i] # IDEVICE_E_SUCCESS => bytes_loc_after(prog, i) <= 0
        /\ i > calls => rets[i] = IDEVICE_E_SUCCESS

(***************************************************************************)
(* mobilebackup2_client_new and mobilebackup2_client_free.                 *)
(***************************************************************************)
\* Faulty variant: the result of device_link_service_version_exchange is
\* ignored, so the client is handed out after a failed exchange as well.
client_new_unchecked_exchange(argsOk, e1, e2) ==
    LET ret1 == mobilebackup2_error(e1)
        ret2 == mobilebackup2_error(e2)
    IN  IF ~argsOk
        THEN [ret |-> MOBILEBACKUP2_E_INVALID_ARG, adapter |-> <<>>, opened |-> FALSE,
              exchanged |-> FALSE, freed |-> FALSE, assigned |-> FALSE]
        ELSE IF ret1 # MOBILEBACKUP2_E_SUCCESS
        THEN [ret |-> ret1, adapter |-> <<e1>>, opened |-> FALSE,
              exchanged |-> FALSE, freed |-> FALSE, assigned |-> FALSE]
        ELSE [ret |-> MOBILEBACKUP2_E_SUCCESS, adapter |-> <<e1, e2>>, opened |-> TRUE,
              exchanged |-> (ret2 = MOBILEBACKUP2_E_SUCCESS), freed |-> FALSE,
              assigned |-> TRUE]

\* Faulty variant: a failed version exchange returns without
\* mobilebackup2_client_free(client_loc).
client_new_leaks_on_failure(argsOk, e1, e2) ==
    LET ret1 == mobilebackup2_error(e1)
        ret2 == mobilebackup2_error(e2)
    IN  IF ~argsOk
        THEN [ret |-> MOBILEBACKUP2_E_INVALID_ARG, adapter |-> <<>>, opened |-> FALSE,
              exchanged |-> FALSE, freed |-> FALSE, assigned |-> FALSE]
        ELSE IF ret1 # MOBILEBACKUP2_E_SUCCESS
        THEN [ret |-> ret1, adapter |-> <<e1>>, opened |-> FALSE,
              exchanged |-> FALSE, freed |-> FALSE, assigned |-> FALSE]
        ELSE IF ret2 # MOBILEBACKUP2_E_SUCCESS
        THEN [ret |-> ret2, adapter |-> <<e1, e2>>, opened |-> TRUE,
              exchanged |-> FALSE, freed |-> FALSE, assigned |-> FALSE]
        ELSE [ret |-> ret2, adapter |-> <<e1, e2>>, opened |-> TRUE,
              exchanged |-> TRUE, freed |-> FALSE, assigned |-> TRUE]

\* What mobilebackup2_client_new does, given whether its arguments pass the
\* check and what device_link_service_client_new (e1) and
\* device_link_service_version_exchange (e2) return.
mobilebackup2_client_new(argsOk, e1, e2) ==
    LET ret1 == mobilebackup2_error(e1)
        ret2 == mobilebackup2_error(e2)
    IN  IF ~argsOk
        THEN [ret |-> MOBILEBACKUP2_E_INVALID_ARG, adapter |-> <<>>, opened |-> FALSE,
              exchanged |-> FALSE, freed |-> FALSE, assigned |-> FALSE]
        ELSE IF ret1 # MOBILEBACKUP2_E_SUCCESS
        THEN [ret |-> ret1, adapter |-> <<e1>>, opened |-> FALSE,
              exchanged |-> FALSE, freed |-> FALSE, assigned |-> FALSE]
        ELSE IF ret2 # MOBILEBACKUP2_E_SUCCESS
        THEN [ret |-> ret2, adapter |-> <<e1, e2>>, opened |-> TRUE,
              exchanged |-> FALSE, freed |-> TRUE, assigned |-> FALSE]
        ELSE [ret |-> ret2, adapter |-> <<e1, e2>>, opened |-> TRUE,
              exchanged |-> TRUE, freed |-> FALSE, assigned |-> TRUE]

\* Faulty variant: an error of device_link_service_client_free returns
\* before free(client).
client_free_keeps_on_error(isNull, p, e) ==
    IF isNull
    THEN [ret |-> MOBILEBACKUP2_E_INVALID_ARG, teardown |-> FALSE, freed |-> FALSE]
    ELSE IF p # 0
    THEN [ret |-> mobilebackup2_error(e), teardown |-> TRUE,
          freed |-> (mobilebackup2_error(e) = MOBILEBACKUP2_E_SUCCESS)]
    ELSE [ret |-> MOBILEBACKUP2_E_SUCCESS, teardown |-> FALSE, freed |-> TRUE]

\* What mobilebackup2_client_free does, given whether client is NULL, the
\* value p read from client->parent and what device_link_service_client_free
\* returns (e).
mobilebackup2_client_free(isNull, p, e) ==
    IF isNull
    THEN [ret |-> MOBILEBACKUP2_E_INVALID_ARG, teardown |-> FALSE, freed |-> FALSE]
    ELSE IF p # 0
    THEN [ret |-> mobilebackup2_error(e), teardown |-> TRUE, freed |-> TRUE]
    ELSE [ret |-> MOBILEBACKUP2_E_SUCCESS, teardown |-> FALSE, freed |-> TRUE]

\* device_link_service_disconnect and device_link_service_client_free on
\* handle p: the handle is given up whatever the two calls return
Teardown(d, p) ==
    [d EXCEPT ![p] = [@ EXCEPT !.state = "released",
                               !.disconnects = @ + 1,
                               !.frees = @ + 1]]

\* the object malloc returns: the lowest one not yet allocated
NewObject == CHOOSE c \in Conns : heap[c] = "unalloc" /\ \A d \in Conns : heap[d] = "unalloc" => c <= d

ClientNew(device, port, out) ==
    /\ Alive
    /\ LET argsOk == ~(device = 0 \/ port = 0 \/ ~out \/ client # 0)
       IN  \* a call that is not made returns nothing: its value is pinned
           \E e1 \in IF argsOk THEN DLErrors ELSE {DL_SUCCESS} :
           \E e2 \in IF argsOk /\ e1 = DL_SUCCESS THEN DLErrors ELSE {DL_SUCCESS} :
           \E e3 \in IF mobilebackup2_client_new(argsOk, e1, e2).freed
                     THEN DLErrors ELSE {DL_SUCCESS} :
            LET o == mobilebackup2_client_new(argsOk, e1, e2)
                c == NewObject
                f == mobilebackup2_client_free(~o.freed, c, e3)
                opened == [dl EXCEPT ![c] = [@ EXCEPT !.state = "open",
                                                      !.exchanged = o.exchanged]]
            IN  \/ /\ ~o.opened
                   /\ last' = [NoCall EXCEPT !.op = "client_new", !.ret = o.ret,
                                             !.adapter = o.adapter]
                   /\ UNCHANGED <<heap, parent, dl, negotiated, client, nfrees, uaf>>
                \/ /\ o.opened
                   /\ \E d \in Conns : heap[d] = "unalloc"
                   /\ heap' = [heap EXCEPT ![c] = IF f.freed THEN "freed" ELSE "live"]
                   /\ parent' = [parent EXCEPT ![c] = c]
                   /\ dl' = IF f.teardown THEN Teardown(opened, c) ELSE opened
                   /\ nfrees' = [nfrees EXCEPT ![c] = IF f.freed THEN 1 ELSE 0]
                   /\ client' = IF o.assigned THEN c ELSE client
                   /\ last' = [NoCall EXCEPT !.op = "client_new", !.client = c,
                                             !.ret = o.ret, !.adapter = o.adapter,
                                             !.opened = TRUE,
                                             !.assigned = o.assigned]
                   /\ UNCHANGED <<negotiated, uaf>>

ClientFree(arg) ==
    /\ Alive
    /\ IF arg = 0
       THEN /\ last' = [NoCall EXCEPT !.op = "client_free",
                            !.ret = mobilebackup2_client_free(TRUE, 0, DL_SUCCESS).ret]
            /\ UNCHANGED <<heap, parent, dl, negotiated, client, nfrees, uaf>>
       ELSE \E p \in ParentRead(arg), e \in DLErrors :
                LET f == mobilebackup2_client_free(FALSE, p, e)
                IN  /\ dl' = IF f.teardown THEN Teardown(dl, p) ELSE dl
                    /\ heap' = [heap EXCEPT ![arg] = IF f.freed THEN "freed" ELSE @]
                    /\ nfrees' = [nfrees EXCEPT ![arg] = IF f.freed THEN @ + 1 ELSE @]
                    /\ uaf' = (uaf \/ heap[arg] = "freed"
                                   \/ (f.teardown /\ dl[p].state = "released"))
                    /\ last' = [NoCall EXCEPT !.op = "client_free", !.client = arg,
                                    !.ret = f.ret, !.accepted = TRUE,
                                    !.adapter = IF f.teardown THEN <<e>> ELSE <<>>]
                    /\ UNCHANGED <<parent, negotiated, client>>

(***************************************************************************)
(* What the environment can deliver, and what the caller can pass.         *)
(***************************************************************************)
plist_new_bool(b) == [type |-> "PLIST_BOOLEAN", num |-> b, str |-> "", items |-> NoItems]

\* a PLIST_DICT with the given items; a key whose node is NULL is left out
MakeDict(f) ==
    [type |-> "PLIST_DICT", num |-> 0, str |-> "",
     items |-> [k \in {j \in DOMAIN f : f[j] # NULL} |-> f[k]]]

MessageNameVals == {NULL, plist_new_string("Response"), plist_new_string("Goodbye"),
                    plist_new_uint(1)}
ErrorCodeVals == {NULL, plist_new_uint(0), plist_new_uint(1), plist_new_real(0),
                  plist_new_string("0")}
ProtocolVersionVals == {NULL, plist_new_real(20), plist_new_real(21), plist_new_uint(2),
                        plist_new_string("2.1")}

\* the plists device_link_service_receive_process_message can deliver
Replies ==
    {MakeDict([k \in {"MessageName", "ErrorCode", "ProtocolVersion"} |->
                  CASE k = "MessageName" -> m
                    [] k = "ErrorCode" -> c
                    [] OTHER -> v]) :
        m \in MessageNameVals, c \in ErrorCodeVals, v \in ProtocolVersionVals}
    \cup {plist_new_array}

\* the options a caller can pass: none, a dictionary (with or without a
\* MessageName of its own), or a node that is no dictionary
OptionVals ==
    {NULL, plist_new_string("opt"), plist_new_array, plist_new_dict,
     MakeDict([k \in {"ForceFullBackup"} |-> plist_new_bool(1)]),
     MakeDict([k \in {"MessageName"} |-> plist_new_string("Old")]),
     MakeDict([k \in {"MessageName", "ForceFullBackup"} |->
                  IF k = "MessageName" THEN plist_new_uint(1) ELSE plist_new_bool(1)])}

\* the plists the helpers are tried against: every kind of MessageName, a
\* dictionary without one, and a node that is no dictionary
CodecReplies ==
    {MakeDict([k \in {"MessageName", "ErrorCode"} |->
                  IF k = "MessageName" THEN m ELSE plist_new_uint(0)]) :
        m \in MessageNameVals}
    \cup {plist_new_dict, plist_new_array}

ProgressVals == (-1)..MaxLen

\* the values a read of arg->parent can yield for the client argument arg
PRead(arg) == IF arg = 0 THEN {0} ELSE ParentRead(arg)

\* the call read a freed client object, or used a released handle
Touches(arg, p, called) ==
    \/ arg # 0 /\ heap[arg] = "freed"
    \/ called /\ p # 0 /\ dl[p].state = "released"

(***************************************************************************)
(* The calls of the public interface.                                      *)
(***************************************************************************)
VersionExchange(arg, errs, replies) ==
    /\ Alive
    /\ \E p \in PRead(arg) :
        LET clientOk == arg # 0 /\ p # 0
        IN  \E eSend \in IF clientOk THEN errs ELSE {DL_SUCCESS} :
            \E eRecv \in IF clientOk /\ eSend = DL_SUCCESS THEN errs ELSE {DL_SUCCESS} :
            \E reply \in IF clientOk /\ eSend = DL_SUCCESS /\ eRecv = DL_SUCCESS
                         THEN replies ELSE {NULL} :
                LET o == mobilebackup2_version_exchange(clientOk, eSend, eRecv, reply)
                IN  /\ negotiated' = IF arg # 0 /\ o.err = MOBILEBACKUP2_E_SUCCESS
                                     THEN [negotiated EXCEPT ![arg] = TRUE]
                                     ELSE negotiated
                    /\ uaf' = (uaf \/ Touches(arg, p, clientOk))
                    /\ last' = [NoCall EXCEPT !.op = "version_exchange", !.client = arg,
                                    !.ret = o.err, !.accepted = clientOk,
                                    !.sent = o.sent, !.adapter = o.adapter,
                                    !.reply = reply, !.rval = o.rval]
                    /\ UNCHANGED <<heap, parent, dl, client, nfrees>>

SendRequest(arg, request, target_identifier, source_identifier, options, errs) ==
    /\ Alive
    /\ \E p \in PRead(arg) :
        LET clientOk == arg # 0 /\ p # 0
            called == clientOk /\ request # NULLSTR /\ target_identifier # NULLSTR
        IN  \E e \in IF called THEN errs ELSE {DL_SUCCESS} :
                LET o == mobilebackup2_send_request(clientOk, request, target_identifier,
                                                    source_identifier, options, e)
                IN  /\ uaf' = (uaf \/ Touches(arg, p, called))
                    /\ last' = [NoCall EXCEPT !.op = "send_request", !.client = arg,
                                    !.ret = o.err, !.accepted = clientOk,
                                    !.message = request, !.options = options,
                                    !.optionsAfter = o.optionsAfter,
                                    !.target = target_identifier,
                                    !.source = source_identifier,
                                    !.sent = o.sent,
                                    !.adapter = IF called THEN <<e>> ELSE <<>>]
                    /\ UNCHANGED <<heap, parent, dl, negotiated, client, nfrees>>

SendStatusResponse(arg, status_code, status1, status2, errs) ==
    /\ Alive
    /\ \E p \in PRead(arg) :
        LET clientOk == arg # 0 /\ p # 0
        IN  \E e \in IF clientOk THEN errs ELSE {DL_SUCCESS} :
                LET o == mobilebackup2_send_status_response(clientOk, status_code,
                                                            status1, status2, e)
                IN  /\ uaf' = (uaf \/ Touches(arg, p, clientOk))
                    /\ last' = [NoCall EXCEPT !.op = "send_status_response", !.client = arg,
                                    !.ret = o.err, !.accepted = clientOk,
                                    !.message = status1, !.options = status2,
                                    !.optionsAfter = status2, !.length = status_code,
                                    !.sent = o.sent,
                                    !.adapter = IF clientOk THEN <<e>> ELSE <<>>]
                    /\ UNCHANGED <<heap, parent, dl, negotiated, client, nfrees>>

\* mobilebackup2_receive_message: client->parent is read without a check
ReceiveMessage(arg, errs) ==
    /\ Alive
    /\ IF arg = 0
       THEN /\ last' = [NoCall EXCEPT !.op = "receive_message", !.ret = SIGSEGV]
            /\ UNCHANGED <<heap, parent, dl, negotiated, client, nfrees, uaf>>
       ELSE \E p \in PRead(arg), e \in errs :
            \E reply \in IF e = DL_SUCCESS
                         THEN {plist_new_array, MakeDict([k \in {"MessageName"} |->
                                                             plist_new_string("Response")])}
                         ELSE {NULL} :
                /\ uaf' = (uaf \/ Touches(arg, p, TRUE))
                /\ last' = [NoCall EXCEPT !.op = "receive_message", !.client = arg,
                                !.ret = mobilebackup2_error(e), !.accepted = TRUE,
                                !.adapter = <<e>>, !.reply = reply, !.result = reply]
                /\ UNCHANGED <<heap, parent, dl, negotiated, client, nfrees>>

\* outcomes: the pairs <<prog, rets>> the connection can answer with
SendRaw(arg, data, length, outcomes) ==
    /\ Alive
    /\ \E p \in PRead(arg) :
        LET clientOk == arg # 0 /\ p # 0
        IN  \E oc \in IF clientOk THEN outcomes ELSE {NoOutcome} :
                LET prog == oc[1]
                    rets == oc[2]
                    o == mobilebackup2_send_raw(clientOk, data, length, prog)
                IN  /\ Admissible(length, prog, 1, 0)
                    /\ Returned(prog, rets, o.calls)
                    /\ uaf' = (uaf \/ Touches(arg, p, clientOk))
                    /\ last' = [NoCall EXCEPT !.op = "send_raw", !.client = arg,
                                    !.ret = o.ret, !.accepted = clientOk,
                                    !.length = length, !.prog = prog,
                                    !.bytes = o.bytes, !.calls = o.calls,
                                    !.adapter = ReturnedBy(rets, o.calls),
                                    !.asked = o.asked, !.data = data, !.wire = o.wire]
                    /\ UNCHANGED <<heap, parent, dl, negotiated, client, nfrees>>

\* streams: what the connection can have to deliver.  With echo, it is what
\* the mobilebackup2_send_raw just before has put on the connection (the peer
\* sends it back), and length is the length of that call.
ReceiveRaw(arg, length, outcomes, streams, echo) ==
    /\ Alive
    /\ echo => last.op = "send_raw" /\ last.accepted /\ length = last.length
    /\ \E p \in PRead(arg) :
        LET clientOk == arg # 0 /\ p # 0
        IN  \E oc \in IF clientOk THEN outcomes ELSE {NoOutcome} :
            \E stream \in IF echo THEN {last.wire} ELSE streams :
                LET prog == oc[1]
                    rets == oc[2]
                    data == [j \in 1..length |-> 0]
                    o == mobilebackup2_receive_raw(clientOk, data, length, prog, stream)
                IN  /\ Admissible(length, prog, 1, 0)
                    \* the connection delivers no more than it has
                    /\ Delivered(prog, Len(prog)) <= Len(stream)
                    /\ Returned(prog, rets, o.calls)
                    /\ uaf' = (uaf \/ Touches(arg, p, clientOk))
                    /\ last' = [NoCall EXCEPT !.op = "receive_raw", !.client = arg,
                                    !.ret = o.ret, !.accepted = clientOk,
                                    !.length = length, !.prog = prog,
                                    !.bytes = o.bytes, !.calls = o.calls,
                                    !.adapter = ReturnedBy(rets, o.calls),
                                    !.asked = o.asked, !.data = o.data,
                                    !.stream = stream,
                                    !.wire = SubSeq(stream, 1, Delivered(prog, o.calls)),
                                    !.echo = echo,
                                    !.echoed = IF echo THEN last.data ELSE <<>>,
                                    !.echoedProg = IF echo THEN last.prog ELSE <<>>]
                    /\ UNCHANGED <<heap, parent, dl, negotiated, client, nfrees>>

(***************************************************************************)
(* The two static helpers called on their own, with every combination of   *)
(* arguments (the public functions reach them with some of these only).    *)
(***************************************************************************)
InternalSendMessage(arg, message, options) ==
    /\ Alive
    /\ \E p \in PRead(arg) :
        LET clientOk == arg # 0 /\ p # 0
            called == send_message_args_ok(clientOk, message, options)
        IN  \E e \in IF called THEN DLErrors ELSE {DL_SUCCESS} :
                LET o == internal_mobilebackup2_send_message(clientOk, message, options, e)
                IN  /\ uaf' = (uaf \/ Touches(arg, p, called))
                    /\ last' = [NoCall EXCEPT !.op = "internal_send_message", !.client = arg,
                                    !.ret = o.err, !.accepted = clientOk,
                                    !.message = message, !.options = options,
                                    !.optionsAfter = o.optionsAfter,
                                    !.sent = o.sent,
                                    !.adapter = IF called THEN <<e>> ELSE <<>>]
                    /\ UNCHANGED <<heap, parent, dl, negotiated, client, nfrees>>

InternalReceiveMessage(arg, message, wantResult, result0) ==
    /\ Alive
    /\ \E p \in PRead(arg) :
        LET clientOk == arg # 0 /\ p # 0
            called == clientOk /\ message # NULLSTR
        IN  \E e \in IF called THEN DLErrors ELSE {DL_SUCCESS} :
            \E reply \in IF called /\ e = DL_SUCCESS THEN CodecReplies ELSE {NULL} :
                LET o == internal_mobilebackup2_receive_message(clientOk, message, wantResult,
                                                                result0, e, reply)
                IN  /\ uaf' = (uaf \/ Touches(arg, p, called))
                    /\ last' = [NoCall EXCEPT !.op = "internal_receive_message",
                                    !.client = arg,
                                    !.ret = o.err, !.accepted = clientOk,
                                    !.message = message, !.wantResult = wantResult,
                                    !.options = result0,
                                    !.adapter = IF called THEN <<e>> ELSE <<>>,
                                    !.reply = reply, !.result = o.result]
                    /\ UNCHANGED <<heap, parent, dl, negotiated, client, nfrees>>

\* the caller sets its mobilebackup2_client_t variable back to NULL
CallerReset ==
    /\ Alive
    /\ client # 0
    /\ client' = 0
    /\ last' = NoCall
    /\ UNCHANGED <<heap, parent, dl, negotiated, nfrees, uaf>>

(***************************************************************************)
(* Spec: the life cycle of a client through the public interface.  The     *)
(* calls that do not change the life cycle draw their inputs from small    *)
(* sets here; SpecHandshake, SpecCodec, SpecSession and SpecRaw draw them  *)
(* from the full sets.                                                     *)
(***************************************************************************)
SomeErrors == {DL_SUCCESS, "DEVICE_LINK_SERVICE_E_MUX_ERROR"}

GoodReply ==
    MakeDict([k \in {"MessageName", "ErrorCode", "ProtocolVersion"} |->
                 CASE k = "MessageName" -> plist_new_string("Response")
                   [] k = "ErrorCode" -> plist_new_uint(0)
                   [] OTHER -> plist_new_real(21)])

SomeReplies == {GoodReply, MakeDict([k \in {"MessageName"} |-> plist_new_string("Goodbye")])}

\* the whole length in one call, or nothing at all
SomeProgs == {[i \in 1..MaxLen |-> IF i = 1 THEN MaxLen ELSE 0], [i \in 1..MaxLen |-> 0]}

SomeOutcomes == {<<prog, [i \in 1..MaxLen |-> IDEVICE_E_SUCCESS]>> : prog \in SomeProgs}

\* a buffer of MaxLen bytes
SomeData == [j \in 1..MaxLen |-> 1]

Next ==
    \/ \E device \in {0, 1}, port \in {0, 1}, out \in BOOLEAN : ClientNew(device, port, out)
    \/ \E arg \in {0, client} : ClientFree(arg)
    \/ \E arg \in {0, client} : VersionExchange(arg, SomeErrors, SomeReplies)
    \/ \E arg \in {0, client}, request \in {NULLSTR, "Backup"} :
            SendRequest(arg, request, "UUID-1", NULLSTR, NULL, SomeErrors)
    \/ \E arg \in {0, client} : SendStatusResponse(arg, 0, NULLSTR, NULL, SomeErrors)
    \/ \E arg \in {0, client} : ReceiveMessage(arg, SomeErrors)
    \/ \E arg \in {0, client} : SendRaw(arg, SomeData, MaxLen, SomeOutcomes)
    \/ \E arg \in {0, client} : ReceiveRaw(arg, MaxLen, SomeOutcomes, {SomeData}, FALSE)
    \/ CallerReset

Spec == Init /\ [][Next]_vars

(***************************************************************************)
(* SpecHandshake: mobilebackup2_version_exchange on a client that          *)
(* mobilebackup2_client_new has just returned, against every reply.        *)
(***************************************************************************)
InitConnected ==
    /\ heap = [c \in Conns |-> IF c = 1 THEN "live" ELSE "unalloc"]
    /\ parent = [c \in Conns |-> IF c = 1 THEN 1 ELSE 0]
    /\ dl = [c \in Conns |-> IF c = 1
                             THEN [ClosedHandle EXCEPT !.state = "open", !.exchanged = TRUE]
                             ELSE ClosedHandle]
    /\ negotiated = [c \in Conns |-> FALSE]
    /\ client = 1
    /\ nfrees = [c \in Conns |-> 0]
    /\ uaf = FALSE
    /\ last = [NoCall EXCEPT !.op = "client_new", !.client = 1,
                             !.adapter = <<DL_SUCCESS, DL_SUCCESS>>,
                             !.opened = TRUE, !.assigned = TRUE]

NextHandshake ==
    \E arg \in {0, client} : VersionExchange(arg, DLErrors, Replies)

SpecHandshake == InitConnected /\ [][NextHandshake]_vars

(***************************************************************************)
(* SpecCodec: internal_mobilebackup2_send_message and                      *)
(* internal_mobilebackup2_receive_message on a connected client (or NULL). *)
(***************************************************************************)
NextCodec ==
    \/ \E arg \in {0, client}, message \in {NULLSTR, "Hello", "Response"},
          options \in OptionVals :
            InternalSendMessage(arg, message, options)
    \/ \E arg \in {0, client}, message \in {NULLSTR, "Response", "Goodbye"},
          wantResult \in BOOLEAN, result0 \in {NULL, plist_new_string("stale")} :
            InternalReceiveMessage(arg, message, wantResult, result0)

SpecCodec == InitConnected /\ [][NextCodec]_vars

(***************************************************************************)
(* SpecSession: mobilebackup2_send_request and                             *)
(* mobilebackup2_send_status_response on a connected client (or NULL),     *)
(* with every combination of arguments and every device link result.       *)
(***************************************************************************)
\* DLErrors and a value that device_link_service_error_t does not name
DLErrorsWide == DLErrors \cup {"(device_link_service_error_t)-5"}

RequestVals == {NULLSTR, "Backup", "Restore"}
TargetVals == {NULLSTR, "UUID-1"}
SourceVals == {NULLSTR, "UUID-2"}
StatusCodeVals == {-13, -1, 0, 1, 207}
Status1Vals == {NULLSTR, "", "Multi status"}

NextSession ==
    \/ \E arg \in {0, client}, request \in RequestVals, target_identifier \in TargetVals,
          source_identifier \in SourceVals, options \in OptionVals :
            SendRequest(arg, request, target_identifier, source_identifier, options,
                        DLErrorsWide)
    \/ \E arg \in {0, client}, status_code \in StatusCodeVals, status1 \in Status1Vals,
          status2 \in OptionVals :
            SendStatusResponse(arg, status_code, status1, status2, DLErrorsWide)

SpecSession == InitConnected /\ [][NextSession]_vars

(***************************************************************************)
(* SpecRaw: mobilebackup2_send_raw and mobilebackup2_receive_raw on a      *)
(* connected client (or NULL), for every length up to MaxLen and every     *)
(* way the connection can split the transfer or fail.                      *)
(***************************************************************************)
RECURSIVE Answers(_, _, _)
\* the answers <<prog, rets>> of the connection over slots calls to a
\* transfer with rest bytes to go (first: no call was made yet): a call
\* moves between one byte and rest, or it moves nothing and ends the
\* transfer, with or without an error; once rest is 0 no call is made
Answers(rest, slots, first) ==
    LET idle(n) == <<[i \in 1..n |-> 0], [i \in 1..n |-> IDEVICE_E_SUCCESS]>>
    IN  IF slots = 0 \/ (rest = 0 /\ ~first)
        THEN {idle(slots)}
        ELSE {<<<<v>> \o idle(slots - 1)[1], <<e>> \o idle(slots - 1)[2]>> :
                 v \in {x \in ProgressVals : x <= 0}, e \in IDeviceErrors}
             \cup UNION {{<<<<n>> \o t[1], <<IDEVICE_E_SUCCESS>> \o t[2]>> :
                             t \in Answers(rest - n, slots - 1, FALSE)} :
                         n \in {x \in ProgressVals : x >= 1 /\ x <= rest}}

\* the answers of the connection to a transfer of length bytes
RawOutcomes(length) == Answers(length, MaxLen, TRUE)

\* the buffers of a length: distinct bytes, and one byte throughout
RawData(length) == {[j \in 1..length |-> j], [j \in 1..length |-> 7]}

\* what the peer can send of its own
RawStreams == {<<>>, [j \in 1..MaxLen |-> 10 + j]}

NextRaw ==
    \/ \E arg \in {0, client}, length \in 0..MaxLen :
        \E data \in RawData(length) :
            SendRaw(arg, data, length, RawOutcomes(length))
    \/ \E arg \in {0, client}, length \in 0..MaxLen, echo \in BOOLEAN :
            ReceiveRaw(arg, length, RawOutcomes(length), RawStreams, echo)

SpecRaw == InitConnected /\ [][NextRaw]_vars

(***************************************************************************)
(* The error kinds under the names the specification gives them.           *)
(***************************************************************************)
InvalidArgument == MOBILEBACKUP2_E_INVALID_ARG
ProtocolError == MOBILEBACKUP2_E_PLIST_ERROR
ReplyMismatch == MOBILEBACKUP2_E_REPLY_NOT_OK

\* the calls of the session client other than connect and disconnect
SessionOps == {"send_request", "send_status_response", "receive_message",
               "send_raw", "receive_raw"}

(***************************************************************************)
(* Life cycle (Spec).                                                      *)
(***************************************************************************)
\* C1, as stated: a session call other than connect gets past the client
\* check only on a client whose "Hello"/"Response" exchange
\* (mobilebackup2_version_exchange) has returned success, and a client that
\* mobilebackup2_client_new hands out has completed that exchange.
C1_Original ==
    /\ last.op \in SessionOps /\ last.accepted => negotiated[last.client]
    /\ last.op = "client_new" /\ last.assigned => negotiated[last.client]

\* C1, amended: the exchange that precedes every accepted session call is the
\* device link version exchange made by mobilebackup2_client_new.  Every
\* client the caller holds, and every client a session call accepts, has
\* completed it; a client just handed out has not run the "Hello"/"Response"
\* exchange, which mobilebackup2_client_new never makes.
C1_AcceptedAfterLinkExchange ==
    /\ client # 0 => dl[client].exchanged
    /\ last.op \in SessionOps /\ last.accepted => dl[last.client].exchanged
    /\ last.op = "client_new" /\ last.assigned =>
           /\ client = last.client
           /\ dl[last.client].exchanged
           /\ ~negotiated[last.client]

\* a request is accepted and sent on a client that never ran the
\* "Hello"/"Response" exchange
C1_Witness ==
    /\ last.op = "send_request"
    /\ last.accepted
    /\ last.ret = MOBILEBACKUP2_E_SUCCESS
    /\ dl[last.client].exchanged
    /\ ~negotiated[last.client]

\* C2: a mobilebackup2_client_new that fails returns the mapped error of the
\* device link call that failed, has released the handle it opened (and freed
\* the client object), and leaves the caller's client unset; no handle is
\* ever open without a completed version exchange.
C2_FailedConnectCleansUp ==
    /\ \A c \in Conns : dl[c].state = "open" => dl[c].exchanged /\ heap[c] = "live"
    /\ last.op = "client_new" /\ last.ret # MOBILEBACKUP2_E_SUCCESS =>
           /\ ~last.assigned
           /\ last.adapter # <<>> =>
                  /\ client = 0
                  /\ last.ret = mobilebackup2_error(last.adapter[Len(last.adapter)])
           /\ last.adapter = <<>> => last.ret = InvalidArgument /\ ~last.opened
           /\ last.opened =>
                  /\ dl[last.client].state = "released"
                  /\ dl[last.client].frees = 1
                  /\ heap[last.client] = "freed"
                  /\ nfrees[last.client] = 1

\* the handshake after a successful open has failed
C2_Witness ==
    /\ last.op = "client_new"
    /\ last.opened
    /\ last.ret = MOBILEBACKUP2_E_BAD_VERSION
    /\ dl[last.client].state = "released"
    /\ client = 0

\* C3, as stated: however often mobilebackup2_client_free is called on a
\* client, its handle is torn down and released once, the object is freed
\* once, and no released object or handle is touched.
C3_Original ==
    /\ ~uaf
    /\ \A c \in Conns : dl[c].frees <= 1 /\ nfrees[c] <= 1

\* C3, amended: one mobilebackup2_client_free on a live client tears its
\* handle down and releases it once and frees the object, whatever the device
\* link service returns; a NULL client is refused and nothing is released;
\* nothing is released twice as long as no call is made on a freed client.
C3_SingleDisconnect ==
    /\ \A c \in Conns : nfrees[c] = 1 =>
           /\ heap[c] = "freed"
           /\ dl[c].state = "released"
           /\ dl[c].frees = 1
           /\ dl[c].disconnects = 1
    /\ last.op = "client_free" /\ last.accepted => heap[last.client] = "freed"
    /\ last.op = "client_free" /\ ~last.accepted =>
           last.ret = InvalidArgument /\ last.adapter = <<>>
    /\ ~uaf => \A c \in Conns : dl[c].frees <= 1 /\ nfrees[c] <= 1

\* the first mobilebackup2_client_free of a connected client, with the device
\* link service reporting an error
C3_Witness ==
    /\ last.op = "client_free"
    /\ last.accepted
    /\ last.ret = MOBILEBACKUP2_E_MUX_ERROR
    /\ nfrees[last.client] = 1
    /\ dl[last.client].exchanged
    /\ heap[last.client] = "freed"
    /\ ~uaf

(***************************************************************************)
(* The "Hello"/"Response" exchange (SpecHandshake).                        *)
(***************************************************************************)
MessageNameOf(reply) == plist_dict_get_item(reply, "MessageName")
ErrorCodeOf(reply) == plist_dict_get_item(reply, "ErrorCode")
ProtocolVersionOf(reply) == plist_dict_get_item(reply, "ProtocolVersion")

\* the reply carries a MessageName that is the string name
Named(reply, name) ==
    MessageNameOf(reply).type = "PLIST_STRING" /\ MessageNameOf(reply).str = name

\* an integer or a real
Numeric(node) == node.type \in {"PLIST_UINT", "PLIST_REAL"}

\* mobilebackup2_version_exchange has sent "Hello" and received one plist
HandshakeReplied == last.op = "version_exchange" /\ last.reply # NULL

\* C4, as stated: a reply without MessageName, or with a MessageName other
\* than "Response", makes the exchange fail with ReplyMismatch.
C4_Original ==
    HandshakeReplied /\ ~Named(last.reply, "Response") => last.ret = ReplyMismatch

\* C4, amended: a reply whose MessageName is present and is not the string
\* "Response" fails with ReplyMismatch; a reply without MessageName fails
\* with ProtocolError.
C4_NameMismatchOrMissing ==
    HandshakeReplied =>
        /\ MessageNameOf(last.reply) = NULL => last.ret = ProtocolError
        /\ MessageNameOf(last.reply) # NULL /\ ~Named(last.reply, "Response") =>
               last.ret = ReplyMismatch

\* a dictionary without MessageName was received
C4_Witness ==
    /\ HandshakeReplied
    /\ last.reply.type = "PLIST_DICT"
    /\ MessageNameOf(last.reply) = NULL
    /\ last.ret = ProtocolError

\* C5, as stated: a reply named "Response" without a numeric ErrorCode, or
\* with an ErrorCode other than zero, makes the exchange fail with
\* ProtocolError.
C5_Original ==
    /\ HandshakeReplied
    /\ Named(last.reply, "Response")
    /\ ~Numeric(ErrorCodeOf(last.reply)) \/ ErrorCodeOf(last.reply).num # 0
    => last.ret = ProtocolError

\* C5, amended: a reply named "Response" whose ErrorCode is missing or is not
\* an unsigned integer fails with ProtocolError; one whose ErrorCode is an
\* unsigned integer other than zero fails with ReplyMismatch.
C5_ErrorCodeRejected ==
    HandshakeReplied /\ Named(last.reply, "Response") =>
        /\ ErrorCodeOf(last.reply).type # "PLIST_UINT" => last.ret = ProtocolError
        /\ ErrorCodeOf(last.reply).type = "PLIST_UINT" /\ ErrorCodeOf(last.reply).num # 0 =>
               last.ret = ReplyMismatch

\* a "Response" with ErrorCode 1 was received
C5_Witness ==
    /\ HandshakeReplied
    /\ Named(last.reply, "Response")
    /\ ErrorCodeOf(last.reply) = plist_new_uint(1)
    /\ last.ret = ReplyMismatch

\* "Hello" was handed to the device link service, which reported success
HelloSent ==
    /\ last.op = "version_exchange"
    /\ last.accepted
    /\ last.adapter # <<>>
    /\ last.adapter[1] = DL_SUCCESS

\* C6, as stated: once "Hello" is sent, the exchange succeeds exactly when the
\* reply is named "Response", has a numeric ErrorCode equal to zero and a
\* numeric ProtocolVersion; such a reply without a numeric ProtocolVersion
\* fails with ProtocolError.
C6_Original ==
    HelloSent =>
        /\ last.ret = MOBILEBACKUP2_E_SUCCESS <=>
               /\ last.reply # NULL
               /\ Named(last.reply, "Response")
               /\ Numeric(ErrorCodeOf(last.reply)) /\ ErrorCodeOf(last.reply).num = 0
               /\ Numeric(ProtocolVersionOf(last.reply))
        /\ /\ last.reply # NULL
           /\ Named(last.reply, "Response")
           /\ Numeric(ErrorCodeOf(last.reply)) /\ ErrorCodeOf(last.reply).num = 0
           /\ ~Numeric(ProtocolVersionOf(last.reply))
           => last.ret = ProtocolError

\* C6, amended: once "Hello" is sent, the exchange succeeds exactly when a
\* reply is received that is named "Response", has an unsigned integer
\* ErrorCode equal to zero and a real ProtocolVersion, whatever the value of
\* that version (which is only logged); such a reply whose ProtocolVersion is
\* missing or is not a real fails with ProtocolError.
C6_SuccessExactly ==
    HelloSent =>
        /\ last.ret = MOBILEBACKUP2_E_SUCCESS <=>
               /\ last.reply # NULL
               /\ Named(last.reply, "Response")
               /\ ErrorCodeOf(last.reply) = plist_new_uint(0)
               /\ ProtocolVersionOf(last.reply).type = "PLIST_REAL"
        /\ last.ret = MOBILEBACKUP2_E_SUCCESS =>
               last.rval = ProtocolVersionOf(last.reply).num
        /\ /\ last.reply # NULL
           /\ Named(last.reply, "Response")
           /\ ErrorCodeOf(last.reply) = plist_new_uint(0)
           /\ ProtocolVersionOf(last.reply).type # "PLIST_REAL"
           => last.ret = ProtocolError

\* the exchange has succeeded with the lower of the two versions offered
C6_Witness ==
    /\ HelloSent
    /\ last.ret = MOBILEBACKUP2_E_SUCCESS
    /\ ProtocolVersionOf(last.reply) = plist_new_real(20)
    /\ negotiated[last.client]

(***************************************************************************)
(* The envelope helpers (SpecCodec).                                       *)
(***************************************************************************)
\* internal_mobilebackup2_send_message was called on a valid client
SendCalled == last.op = "internal_send_message" /\ last.accepted

\* options is absent or a dictionary, and not absent together with message
ValidPair ==
    /\ last.options = NULL \/ last.options.type = "PLIST_DICT"
    /\ ~(last.message = NULLSTR /\ last.options = NULL)

C8_InvalidArguments ==
    /\ last.op = "internal_send_message"
    /\ \/ last.message = NULLSTR /\ last.options = NULL
       \/ last.options # NULL /\ last.options.type # "PLIST_DICT"
    => /\ last.ret = InvalidArgument
       /\ last.sent = <<>>
       /\ last.adapter = <<>>

\* a valid client, a message name and options that is an array
C8_Witness ==
    /\ SendCalled
    /\ last.message = "Hello"
    /\ last.options = plist_new_array
    /\ last.ret = InvalidArgument
    /\ last.sent = <<>>

\* the device link service has delivered a plist to
\* internal_mobilebackup2_receive_message
Received ==
    /\ last.op = "internal_receive_message"
    /\ last.adapter = <<DL_SUCCESS>>

\* C9: when the receive succeeds the result follows from the plist received:
\* ProtocolError without MessageName, success when MessageName is the string
\* expected, ReplyMismatch when it is any other string or no string at all.
C9_ResultFromEnvelope ==
    Received =>
        /\ MessageNameOf(last.reply) = NULL <=> last.ret = ProtocolError
        /\ Named(last.reply, last.message) <=> last.ret = MOBILEBACKUP2_E_SUCCESS
        /\ MessageNameOf(last.reply) # NULL /\ ~Named(last.reply, last.message)
               <=> last.ret = ReplyMismatch

\* a MessageName that is an integer was received
C9_Witness ==
    /\ Received
    /\ MessageNameOf(last.reply) = plist_new_uint(1)
    /\ last.ret = ReplyMismatch

\* C10: with a result pointer given, the plist received is what the caller
\* gets on ReplyMismatch and on success; when the receive of the device link
\* service fails the caller gets NULL and the mapped error.
C10_ResultReturned ==
    last.op = "internal_receive_message" /\ last.wantResult =>
        /\ last.ret \in {ReplyMismatch, MOBILEBACKUP2_E_SUCCESS} =>
               last.reply # NULL /\ last.result = last.reply
        /\ last.adapter # <<>> /\ last.adapter # <<DL_SUCCESS>> =>
               /\ last.result = NULL
               /\ last.ret = mobilebackup2_error(last.adapter[1])
               /\ last.ret \notin {MOBILEBACKUP2_E_SUCCESS, ReplyMismatch}

\* the receive failed while the caller's result still held an older plist
C10_Witness ==
    /\ last.op = "internal_receive_message"
    /\ last.wantResult
    /\ last.options # NULL
    /\ last.adapter = <<"DEVICE_LINK_SERVICE_E_MUX_ERROR">>
    /\ last.ret = MOBILEBACKUP2_E_MUX_ERROR
    /\ last.result = NULL

(***************************************************************************)
(* Requests and status responses (SpecSession).                            *)
(***************************************************************************)
\* C11: mobilebackup2_send_request without a request or without a
\* target_identifier fails with InvalidArgument, whatever source_identifier
\* and options are, and hands nothing to the device link service.
C11_RequestNeedsVerbAndTarget ==
    /\ last.op = "send_request"
    /\ last.message = NULLSTR \/ last.target = NULLSTR
    => /\ last.ret = InvalidArgument
       /\ last.sent = <<>>
       /\ last.adapter = <<>>

\* a valid client and a request with source and options, but no target
C11_Witness ==
    /\ last.op = "send_request"
    /\ last.accepted
    /\ last.message = "Backup"
    /\ last.target = NULLSTR
    /\ last.source = "UUID-2"
    /\ last.options.type = "PLIST_DICT"
    /\ last.ret = InvalidArgument
    /\ last.sent = <<>>

\* mobilebackup2_send_request was called on a valid client with a request
\* and a target_identifier
ValidRequest ==
    /\ last.op = "send_request"
    /\ last.accepted
    /\ last.message # NULLSTR
    /\ last.target # NULLSTR

\* the keys of the message a request with this source and these options has
RequestKeys(source, options) ==
    {"MessageName", "TargetIdentifier"}
        \cup (IF source # NULLSTR THEN {"SourceIdentifier"} ELSE {})
        \cup (IF options # NULL THEN {"Options"} ELSE {})

\* C12: a valid request hands one plist to the device link service: a
\* dictionary with MessageName (the request), TargetIdentifier,
\* SourceIdentifier exactly when source_identifier is given, Options (of the
\* value of options) exactly when options is given, and no other key.  The
\* caller's options is the same after the call as before.
C12_RequestEnvelope ==
    ValidRequest =>
        /\ Len(last.sent) = 1
        /\ Len(last.adapter) = 1
        /\ last.optionsAfter = last.options
        /\ last.sent[1].type = "PLIST_DICT"
        /\ DOMAIN last.sent[1].items = RequestKeys(last.source, last.options)
        /\ last.sent[1].items["MessageName"] = plist_new_string(last.message)
        /\ last.sent[1].items["TargetIdentifier"] = plist_new_string(last.target)
        /\ last.source # NULLSTR =>
               last.sent[1].items["SourceIdentifier"] = plist_new_string(last.source)
        /\ last.options # NULL => last.sent[1].items["Options"] = last.options

\* "Backup" for UUID-1 without a source and with the options ForceFullBackup
C12_Witness ==
    /\ ValidRequest
    /\ last.message = "Backup"
    /\ last.target = "UUID-1"
    /\ last.source = NULLSTR
    /\ last.options = MakeDict([k \in {"ForceFullBackup"} |-> plist_new_bool(1)])
    /\ DOMAIN last.sent[1].items = {"MessageName", "TargetIdentifier", "Options"}
    /\ last.sent[1].items["Options"] = last.options
    /\ last.ret = MOBILEBACKUP2_E_SUCCESS

\* mobilebackup2_send_status_response was called on a valid client
\* (status_code is kept in length, status1 in message, status2 in options)
StatusSent == last.op = "send_status_response" /\ last.accepted

\* status1 and status2 as they are sent: the sentinel when absent
Status1Sent ==
    plist_new_string(IF last.message # NULLSTR THEN last.message ELSE EmptyParameterString)
Status2Sent ==
    IF last.options # NULL THEN last.options ELSE plist_new_string(EmptyParameterString)

\* C13, as stated: the one plist sent is an array of four elements:
\* "DLMessageStatusResponse", the status code, status1 or the sentinel,
\* status2 or the sentinel.
C13_Original ==
    StatusSent =>
        /\ Len(last.sent) = 1
        /\ last.sent[1].type = "PLIST_ARRAY"
        /\ last.sent[1].items = <<plist_new_string("DLMessageStatusResponse"),
                                  plist_new_uint(last.length),
                                  Status1Sent, Status2Sent>>

\* C13, amended: the second element is the status code as an unsigned 64 bit
\* integer: the code itself when it is not negative, 2^64 plus the code when
\* it is.  The rest is as stated.
C13_StatusResponseShape ==
    StatusSent =>
        /\ Len(last.sent) = 1
        /\ Len(last.adapter) = 1
        /\ last.sent[1].type = "PLIST_ARRAY"
        /\ Len(last.sent[1].items) = 4
        /\ last.sent[1].items[1] = plist_new_string("DLMessageStatusResponse")
        /\ last.sent[1].items[2].type = "PLIST_UINT"
        /\ last.sent[1].items[2].num = IF last.length >= 0 THEN last.length
                                       ELSE UINT64_MODULUS + last.length
        /\ last.sent[1].items[3] = Status1Sent
        /\ last.sent[1].items[4] = Status2Sent
        /\ last.optionsAfter = last.options

\* a negative status code with neither status1 nor status2
C13_Witness ==
    /\ StatusSent
    /\ last.length = -1
    /\ last.message = NULLSTR
    /\ last.options = NULL
    /\ last.sent[1].items[2].num = UINT64_MODULUS - 1
    /\ last.sent[1].items[3] = plist_new_string(EmptyParameterString)
    /\ last.sent[1].items[4] = plist_new_string(EmptyParameterString)

\* the device link results mobilebackup2_error has a case for, with the
\* error kind of the same name
Recognized ==
    [e \in {"DEVICE_LINK_SERVICE_E_SUCCESS", "DEVICE_LINK_SERVICE_E_INVALID_ARG",
            "DEVICE_LINK_SERVICE_E_PLIST_ERROR", "DEVICE_LINK_SERVICE_E_MUX_ERROR",
            "DEVICE_LINK_SERVICE_E_BAD_VERSION"} |->
        CASE e = "DEVICE_LINK_SERVICE_E_SUCCESS" -> MOBILEBACKUP2_E_SUCCESS
          [] e = "DEVICE_LINK_SERVICE_E_INVALID_ARG" -> MOBILEBACKUP2_E_INVALID_ARG
          [] e = "DEVICE_LINK_SERVICE_E_PLIST_ERROR" -> MOBILEBACKUP2_E_PLIST_ERROR
          [] e = "DEVICE_LINK_SERVICE_E_MUX_ERROR" -> MOBILEBACKUP2_E_MUX_ERROR
          [] OTHER -> MOBILEBACKUP2_E_BAD_VERSION]

\* C18: what a status response or a request returns once the device link
\* service was called is the translation of what that call returned:
\* success for success and for nothing else, the kind of the same name for
\* each recognized error, MOBILEBACKUP2_E_UNKNOWN_ERROR for any other value.
C18_ErrorTranslation ==
    last.op \in {"send_status_response", "send_request"} /\ last.adapter # <<>> =>
        LET e == last.adapter[1]
        IN  /\ e \in DOMAIN Recognized => last.ret = Recognized[e]
            /\ e \notin DOMAIN Recognized => last.ret = MOBILEBACKUP2_E_UNKNOWN_ERROR
            /\ last.ret = MOBILEBACKUP2_E_SUCCESS <=> e = DL_SUCCESS

\* a value outside the enumeration was returned to a status response
C18_Witness ==
    /\ StatusSent
    /\ last.adapter = <<"(device_link_service_error_t)-5">>
    /\ last.ret = MOBILEBACKUP2_E_UNKNOWN_ERROR

(***************************************************************************)
(* The raw transfers (SpecRaw).                                            *)
(***************************************************************************)
TransportError == MOBILEBACKUP2_E_MUX_ERROR

\* mobilebackup2_send_raw or mobilebackup2_receive_raw was called on a valid
\* client
RawCalled == last.op \in {"send_raw", "receive_raw"} /\ last.accepted

\* what the i-th call of the connection reports
Reported(prog, i) == IF i \in DOMAIN prog THEN prog[i] ELSE 0

RECURSIVE Moved(_, _)
\* the sum of the positive counts the calls 1..k report
Moved(prog, k) ==
    IF k = 0 THEN 0
    ELSE Moved(prog, k - 1) + (IF Reported(prog, k) > 0 THEN Reported(prog, k) ELSE 0)

\* the first call that reports no progress or completes the length
StopAt(length, prog) ==
    CHOOSE k \in 1..(Len(prog) + 1) :
        /\ Reported(prog, k) <= 0 \/ Moved(prog, k) >= length
        /\ \A j \in 1..(k - 1) : Reported(prog, j) > 0 /\ Moved(prog, j) < length

\* C14: the calls of the connection are made one after the other, each on
\* the part not yet transferred (data + moved, length - moved), up to and
\* including the first one that reports zero or less or brings the count to
\* length; when the count is above zero at that point the result is success
\* and *bytes is the sum of the positive counts, short of length or not.
C14_RetryDiscipline ==
    RawCalled =>
        LET k == StopAt(last.length, last.prog)
        IN  /\ last.calls = k
            /\ Len(last.asked) = k
            /\ \A i \in 1..k :
                   last.asked[i] = [off |-> Moved(last.prog, i - 1),
                                    len |-> last.length - Moved(last.prog, i - 1)]
            /\ Moved(last.prog, k) > 0 =>
                   /\ last.ret = MOBILEBACKUP2_E_SUCCESS
                   /\ last.bytes = Moved(last.prog, k)

\* a send of three bytes: one byte, one byte, then no progress
C14_Witness ==
    /\ last.op = "send_raw"
    /\ last.accepted
    /\ last.length = 3
    /\ last.prog[1] = 1 /\ last.prog[2] = 1 /\ last.prog[3] = 0
    /\ last.calls = 3
    /\ last.ret = MOBILEBACKUP2_E_SUCCESS
    /\ last.bytes = 2
    /\ last.wire = SubSeq(last.data, 1, 2)

\* C15: when the first idevice_connection_receive returns success and leaves
\* zero bytes, mobilebackup2_receive_raw makes no further call and returns
\* success with *bytes = 0 and the buffer as it was.
C15_NothingAvailable ==
    /\ last.op = "receive_raw"
    /\ last.accepted
    /\ last.adapter[1] = IDEVICE_E_SUCCESS
    /\ last.prog[1] = 0
    => /\ last.calls = 1
       /\ last.ret = MOBILEBACKUP2_E_SUCCESS
       /\ last.bytes = 0
       /\ last.data = [j \in 1..last.length |-> 0]

\* two bytes are asked for while the connection has bytes to deliver, and
\* the first call delivers none
C15_Witness ==
    /\ last.op = "receive_raw"
    /\ last.accepted
    /\ last.length = 2
    /\ last.stream # <<>>
    /\ last.adapter = <<IDEVICE_E_SUCCESS>>
    /\ last.prog[1] = 0
    /\ last.ret = MOBILEBACKUP2_E_SUCCESS
    /\ last.bytes = 0

\* C16: when idevice_connection_receive fails before any byte is received
\* (its first call returns an error), mobilebackup2_receive_raw returns the
\* transport error.
C16_ReceiveFailureSurfaces ==
    /\ last.op = "receive_raw"
    /\ last.accepted
    /\ last.adapter[1] # IDEVICE_E_SUCCESS
    => last.ret = TransportError

\* mobilebackup2_receive_raw was called for the bytes that the
\* mobilebackup2_send_raw before it has put on the connection
EchoReceived == last.op = "receive_raw" /\ last.accepted /\ last.echo

\* no call made in a transfer of this length reports zero or less
AllProgress(length, prog) ==
    \A i \in 1..StopAt(length, prog) : Reported(prog, i) > 0

\* C17, as stated: whatever the calls of the connection report, one
\* mobilebackup2_send_raw of a buffer followed by one mobilebackup2_receive_raw
\* of its length returns the whole buffer, byte for byte.
C17_Original ==
    EchoReceived =>
        /\ last.ret = MOBILEBACKUP2_E_SUCCESS
        /\ last.bytes = last.length
        /\ last.data = last.echoed

\* C17, amended: the buffer is returned whole, byte for byte, when no call
\* of the connection in either function reports zero or less (one call per
\* function, equal parts, uneven parts).  A call that reports zero or less
\* ends the function that made it: what mobilebackup2_receive_raw returns is
\* then the first *bytes bytes of the buffer, and the rest of data is as it
\* was.
C17_RoundTrip ==
    EchoReceived =>
        /\ last.bytes <= last.length
        /\ SubSeq(last.data, 1, last.bytes) = SubSeq(last.echoed, 1, last.bytes)
        /\ \A j \in (last.bytes + 1)..last.length : last.data[j] = 0
        /\ AllProgress(last.length, last.echoedProg) /\ AllProgress(last.length, last.prog) =>
               /\ last.ret = MOBILEBACKUP2_E_SUCCESS
               /\ last.bytes = last.length
               /\ last.data = last.echoed

\* three bytes sent in two uneven parts and received in three equal ones
C17_Witness ==
    /\ EchoReceived
    /\ last.length = 3
    /\ last.echoed = <<1, 2, 3>>
    /\ last.echoedProg[1] = 1 /\ last.echoedProg[2] = 2
    /\ last.prog = <<1, 1, 1>>
    /\ last.calls = 3
    /\ last.data = <<1, 2, 3>>
    /\ last.bytes = 3

\* C19: mobilebackup2_send_raw on a valid client calls the connection at
\* least once and returns success or the transport error; the error exactly
\* when no byte was sent, which is exactly when the first call reports zero
\* or less.  For a length of 0 there is one call and the result is the
\* transport error.
C19_SendNothingIsError ==
    last.op = "send_raw" /\ last.accepted =>
        /\ last.calls >= 1
        /\ last.ret \in {MOBILEBACKUP2_E_SUCCESS, TransportError}
        /\ last.ret = TransportError <=> Moved(last.prog, last.calls) = 0
        /\ last.ret = TransportError <=> Reported(last.prog, 1) <= 0
        /\ last.ret = TransportError => last.bytes = 0 /\ last.wire = <<>>
        /\ last.length = 0 => last.calls = 1 /\ last.ret = TransportError

\* a send of no bytes
C19_Witness ==
    /\ last.op = "send_raw"
    /\ last.accepted
    /\ last.length = 0
    /\ last.calls = 1
    /\ last.adapter = <<IDEVICE_E_SUCCESS>>
    /\ last.ret = TransportError

\* C20: with a connection that never reports more than it was asked for,
\* both loops end: after no more calls than length (one call for a length
\* of 0), each call but the last raising the count; no call is made at an
\* offset beyond length or for less than one byte (but for a length of 0),
\* and *bytes is between 0 and length.
C20_LoopsTerminate ==
    RawCalled /\ Admissible(last.length, last.prog, 1, 0) =>
        /\ last.calls <= (IF last.length = 0 THEN 1 ELSE last.length)
        /\ Cardinality({i \in 1..last.calls : Reported(last.prog, i) > 0}) <= last.length
        /\ \A i \in 1..(last.calls - 1) : Reported(last.prog, i) > 0
        /\ \A i \in 1..Len(last.asked) :
               /\ last.asked[i].off >= 0 /\ last.asked[i].off <= last.length
               /\ last.asked[i].off + last.asked[i].len = last.length
               /\ last.asked[i].len > 0 \/ last.length = 0
               /\ i > 1 => last.asked[i].off > last.asked[i - 1].off
        /\ last.bytes >= 0 /\ last.bytes <= last.length

\* three bytes received in three calls of one byte
C20_Witness ==
    /\ last.op = "receive_raw"
    /\ last.accepted
    /\ last.length = 3
    /\ last.calls = 3
    /\ last.asked[3] = [off |-> 2, len |-> 1]
    /\ last.bytes = 3

====
